---- MODULE Spec2Model ----
(***************************************************************************)
(* Direct-to-storage upload orchestration of imagetosketch-frontend:       *)
(* the useDirectUpload hook (src/hooks/useDirectUpload.ts), the FileUpload *)
(* component that drives it (src/components/ui/file-upload.tsx) and the    *)
(* shared upload registry (contexts/file-upload-context, whose source is   *)
(* not part of src/ and is modelled from section 4.1 of the specification).*)
(*                                                                         *)
(* React closures: a handler sees the state of the render it was created   *)
(* in.  A handler invoked by an event runs against the latest render, so   *)
(* it reads the current value of the variables; an asynchronous function   *)
(* keeps reading the values captured when it was called (run.snapFiles,    *)
(* run.snapCtrl).  Functional updates (setX(prev => ...)) and the          *)
(* registry's mutators act on the latest state.                            *)
(*                                                                         *)
(* One JavaScript task (an event handler and the microtasks it releases)   *)
(* is one action.                                                          *)
(***************************************************************************)
EXTENDS Integers, Sequences, FiniteSets, TLC

\* ---- bounds -------------------------------------------------------------
NumKeys == 2      \* distinct (name, size) pairs a user can pick
MaxIds == 3       \* registry ids handed out over the whole behaviour
MaxLen == 2       \* length of a file list passed to uploadFiles directly
Total == 2        \* event.total of a transfer, in bytes
MaxCalls == 2     \* invocations of uploadFiles over the whole behaviour
MaxBytes == 200   \* size of the file of the transfer looked at byte by byte

\* ---- program constants --------------------------------------------------
DefaultMaxConcurrent == 3      \* options.maxConcurrentUploads || 3
ComponentMaxConcurrent == 3    \* handleUpload: maxConcurrentUploads: 3

Keys == 1..NumKeys
Ids == 1..MaxIds
NoFile == 0
IdSeq == [i \in 1..MaxIds |-> i]

\* What the network does to one attempt of one file: every request
\* succeeds ("ok"), or the authorization, the PUT or the confirmation fails.
Fates == {"ok", "auth", "put", "confirm"}

MsgNone == "none"
MsgPresign == "Failed to get presigned URL"
MsgTransfer == "Upload failed"
MsgAborted == "Upload was aborted"
MsgConfirm == "Failed to confirm upload"
MsgNotFound == "File not found in context"

VARIABLES
    files,         \* registry: id -> (name, size) key, NoFile when absent
    uploads,       \* registry: id -> [status, progress, error]
    nextId,        \* next fresh registry id
    ctrls,         \* hook state abortControllers: ids with a stored controller
    pc,            \* id -> await point of id's pipeline
    net,           \* id -> what the network does to id's current attempt
    loaded,        \* id -> event.loaded of the last progress event
    run,           \* the uploadFiles invocation in progress
    uploading,     \* hook state uploading
    isUploading,   \* component state isUploading
    lastCall,      \* input and return value of the last uploadFiles call
    cancelReq,     \* id -> the cancellation raised during id's current attempt
    retried,       \* ids retried through retryUpload whose new attempt has not ended
    calls,         \* number of uploadFiles invocations so far
    host,          \* the client of the hook: the FileUpload component or a
                   \* component that calls uploadFiles itself (Sketchify)
    xfer,          \* one PUT looked at in detail: the implementation that
                   \* issues it, the file, the request and its progress
    hookCalls,     \* uploadFiles invocations that may overlap: slot -> the
                   \* call's state and its pipelines still in flight
    sketch         \* state of useSketchProcessing: files, processing, the
                   \* calls awaiting their server response

vars == <<files, uploads, nextId, ctrls, pc, net, loaded, run,
          uploading, isUploading, lastCall, cancelReq, retried,
          calls, host, xfer, hookCalls, sketch>>

\* ---- helpers ------------------------------------------------------------
Min(a, b) == IF a < b THEN a ELSE b

SeqToSet(s) == {s[i] : i \in 1..Len(s)}

\* Array.prototype.slice(0, n) and slice(n)
Take(s, n) == SubSeq(s, 1, Min(n, Len(s)))
Drop(s, n) == SubSeq(s, Min(n, Len(s)) + 1, Len(s))

\* Math.round((loaded / total) * 100) for 0 <= loaded <= total
PercentComplete(l, t) == (200 * l + t) \div (2 * t)

\* ---- the upload registry (contexts/file-upload-context) -----------------
NoUpload == [status |-> "none", progress |-> 0, error |-> MsgNone]
NewUpload == [status |-> "pending", progress |-> 0, error |-> MsgNone]

Registered(fs) == {i \in Ids : fs[i] # NoFile}

HasKey_Mut(fs, k) == FALSE

HasKey(fs, k) == \E i \in Ids : fs[i] = k

\* register(files): skip a file whose (name, size) is already present,
\* otherwise create an entry with a fresh id and status pending
RECURSIVE AddFiles(_, _)
AddFiles(reg, list) ==
    IF Len(list) = 0 THEN reg
    ELSE IF HasKey(reg.files, Head(list)) \/ reg.nextId > MaxIds
         THEN AddFiles(reg, Tail(list))
         ELSE AddFiles([files |-> [reg.files EXCEPT ![reg.nextId] = Head(list)],
                        uploads |-> [reg.uploads EXCEPT ![reg.nextId] = NewUpload],
                        nextId |-> reg.nextId + 1], Tail(list))

\* number of entries register(list) would create
RECURSIVE NewKeys(_, _)
NewKeys(fs, list) ==
    IF Len(list) = 0 THEN {}
    ELSE (IF HasKey(fs, Head(list)) THEN {} ELSE {Head(list)})
         \cup NewKeys(fs, Tail(list))

\* setStatus(id, status, remoteKey?, errorMessage?): only the fields
\* relevant to the new status change; unknown id: nothing happens
SetUploadStatus(fs, ups, id, st, msg) ==
    IF fs[id] = NoFile THEN ups
    ELSE [ups EXCEPT ![id] = [@ EXCEPT !.status = st,
                                       !.error = IF st = "error" THEN msg ELSE @]]

\* setProgress(id, percent): clamps to [0, 100]; unknown id: nothing happens
SetProgress(fs, ups, id, p) ==
    IF fs[id] = NoFile THEN ups
    ELSE [ups EXCEPT ![id].progress = IF p < 0 THEN 0 ELSE IF p > 100 THEN 100 ELSE p]

\* remove(id)
RemoveEntry(s, id) ==
    [s EXCEPT !.files[id] = NoFile, !.uploads[id] = NoUpload, !.retried = @ \ {id}]

\* clear()
ClearEntries(s) ==
    [s EXCEPT !.files = [i \in Ids |-> NoFile],
              !.uploads = [i \in Ids |-> NoUpload],
              !.retried = {}]

\* getFileById(id) on the registry value a closure captured
GetFileById(snapFiles, id) == snapFiles[id]

\* ---- the whole state as one value, to compose the steps of a task -------
Cur ==
    [files |-> files, uploads |-> uploads, nextId |-> nextId, ctrls |-> ctrls,
     pc |-> pc, net |-> net, loaded |-> loaded,
     run |-> run, uploading |-> uploading, isUploading |-> isUploading,
     lastCall |-> lastCall, cancelReq |-> cancelReq,
     retried |-> retried, calls |-> calls]

Commit(s) ==
    /\ files' = s.files
    /\ uploads' = s.uploads
    /\ nextId' = s.nextId
    /\ ctrls' = s.ctrls
    /\ pc' = s.pc
    /\ net' = s.net
    /\ loaded' = s.loaded
    /\ run' = s.run
    /\ uploading' = s.uploading
    /\ isUploading' = s.isUploading
    /\ lastCall' = s.lastCall
    /\ cancelReq' = s.cancelReq
    /\ calls' = s.calls
    /\ retried' = s.retried
    /\ host' = host
    /\ xfer' = xfer
    /\ hookCalls' = hookCalls
    /\ sketch' = sketch

NoRun ==
    [active |-> FALSE, owner |-> "none", input |-> <<>>, maxc |-> 0,
     batch |-> <<>>, queue |-> <<>>, done |-> {}, results |-> <<>>,
     snapFiles |-> [i \in Ids |-> NoFile], snapCtrl |-> {}]

NoCancel == "none"

NoCall == [input |-> <<>>, ids |-> <<>>, results |-> <<>>, returned |-> FALSE]

\* no PUT is looked at in detail
NoXfer ==
    [impl |-> "none", fileType |-> "", total |-> 0, phase |-> "unsent",
     headers |-> <<>>, sent |-> 0, percent |-> 0, reported |-> FALSE,
     response |-> "none", etagHeader |-> [present |-> FALSE, value |-> <<>>],
     promise |-> "pending", etag |-> <<>>, confirmSent |-> FALSE,
     onSuccess |-> 0, onError |-> 0,
     returned |-> FALSE, threw |-> FALSE, success |-> FALSE,
     hasFileUrl |-> FALSE, hasError |-> FALSE]

\* ---- overlapping uploadFiles calls, seen call by call --------------------
MaxOverlap == 2

CallSlots == 1..MaxOverlap

NoHookCall == [state |-> "idle", n |-> 0, pending |-> 0]

NoHookCalls == [c \in CallSlots |-> NoHookCall]

\* ---- useSketchProcessing -------------------------------------------------
MaxSketchKeys == 2

MaxSketchCalls == 2

MaxBatch == 2

MaxUuids == 4

SketchKeys == 1..MaxSketchKeys

SketchCalls == 1..MaxSketchCalls

\* undefined, as the id and the originalKey of an entry spread from undefined
NoId == 0

NoKey == 0

NoSketchCall == [kind |-> "none", keys |-> <<>>, ids |-> <<>>, retry |-> FALSE]

NoSketch ==
    [files |-> <<>>, processing |-> FALSE, nextUuid |-> 1,
     calls |-> [c \in SketchCalls |-> NoSketchCall]]

\* nothing is registered and no upload was ever started
Quiescent ==
    /\ files = [i \in Ids |-> NoFile]
    /\ uploads = [i \in Ids |-> NoUpload]
    /\ nextId = 1
    /\ ctrls = {}
    /\ pc = [i \in Ids |-> "idle"]
    /\ net = [i \in Ids |-> "ok"]
    /\ loaded = [i \in Ids |-> 0]
    /\ run = NoRun
    /\ uploading = FALSE
    /\ isUploading = FALSE
    /\ lastCall = NoCall
    /\ cancelReq = [i \in Ids |-> NoCancel]
    /\ calls = 0
    /\ retried = {}

Init ==
    /\ xfer = NoXfer
    /\ hookCalls = NoHookCalls
    /\ sketch = NoSketch
    /\ files = [i \in Ids |-> NoFile]
    /\ uploads = [i \in Ids |-> NoUpload]
    /\ nextId = 1
    /\ ctrls = {}
    /\ pc = [i \in Ids |-> "idle"]
    /\ net = [i \in Ids |-> "ok"]
    /\ loaded = [i \in Ids |-> 0]
    /\ run = NoRun
    /\ uploading = FALSE
    /\ isUploading = FALSE
    /\ lastCall = NoCall
    /\ cancelReq = [i \in Ids |-> NoCancel]
    /\ calls = 0
    /\ retried = {}
    /\ host \in {"component", "direct"}

\* ---- useDirectUpload.uploadSingleFile ----------------------------------
Result(id, ok, msg) == [id |-> id, success |-> ok, error |-> msg]

FateOf(nf, id) == IF id \in DOMAIN nf THEN nf[id] ELSE "ok"

\* up to the first await: the controller is stored, the status becomes
\* uploading and the authorization request is sent
StartPipeline(s, id, fate) ==
    [s EXCEPT !.ctrls = @ \cup {id},
              !.uploads = SetUploadStatus(s.files, @, id, "uploading", MsgNone),
              !.pc[id] = "authorize",
              !.net[id] = fate,
              !.loaded[id] = 0,
              !.cancelReq[id] = NoCancel]

\* the controller cleanup of both exits: the map captured when uploadFiles
\* was called, without this file
CleanedControllers(current, captured, id) == captured \ {id}

\* the success path after the confirmation and the catch block: the status
\* is written, the controller map is replaced, the promise resolves
Settle(s, id, ok, msg) ==
    [s EXCEPT !.uploads = SetUploadStatus(s.files, @, id,
                                          IF ok THEN "success" ELSE "error", msg),
              !.ctrls = CleanedControllers(@, s.run.snapCtrl, id),
              !.pc[id] = "idle",
              !.net[id] = "ok",
              !.loaded[id] = 0,
              !.cancelReq[id] = NoCancel,
              !.retried = @ \ {id},
              !.run.done = @ \cup {Result(id, ok, msg)}]

\* ---- useDirectUpload.uploadFiles ----------------------------------------
\* ids of the registry value the closure captured whose (name, size)
\* matches some input file, in the registry's order
FileIds(snapFiles, input) ==
    SelectSeq(IdSeq, LAMBDA i : /\ snapFiles[i] # NoFile
                                /\ \E j \in 1..Len(input) : input[j] = snapFiles[i])

BatchOf_Mut(remaining, maxc) == Take(remaining, maxc + 1)

\* remainingFileIds.slice(0, maxConcurrent)
BatchOf(remaining, maxc) == Take(remaining, maxc)

\* the ids of a batch for which uploadSingleFile is called
Starters(snapFiles, remaining, maxc) ==
    {i \in SeqToSet(BatchOf(remaining, maxc)) : GetFileById(snapFiles, i) # NoFile}

RECURSIVE StartAll(_, _, _)
StartAll(s, batch, nf) ==
    IF Len(batch) = 0 THEN s
    ELSE LET id == Head(batch)
             s1 == IF GetFileById(s.run.snapFiles, id) = NoFile
                   THEN [s EXCEPT !.run.done = @ \cup {Result(id, FALSE, MsgNotFound)}]
                   ELSE StartPipeline(s, id, FateOf(nf, id))
         IN StartAll(s1, Tail(batch), nf)

BatchSettled(s) ==
    \A i \in 1..Len(s.run.batch) : \E r \in s.run.done : r.id = s.run.batch[i]

BatchResults_Mut(s) ==
    IF \E r \in s.run.done : ~r.success THEN <<>>
    ELSE [i \in 1..Len(s.run.batch) |-> CHOOSE r \in s.run.done : r.id = s.run.batch[i]]

\* batchResults, in the order of the batch
BatchResults(s) ==
    [i \in 1..Len(s.run.batch) |-> CHOOSE r \in s.run.done : r.id = s.run.batch[i]]

\* return results; finally { setUploading(false) }, and the rest of
\* handleUpload when the component made the call
FinishRun(s) ==
    [s EXCEPT !.uploading = FALSE,
              !.isUploading = IF s.run.owner = "component" THEN FALSE ELSE @,
              !.lastCall = [@ EXCEPT !.results = s.run.results, !.returned = TRUE],
              !.run = NoRun]

RECURSIVE ProcessQueue(_, _, _)
ProcessQueue(s, remaining, nf) ==
    IF Len(remaining) = 0 THEN FinishRun(s)
    ELSE LET batch == BatchOf(remaining, s.run.maxc)
             s1 == StartAll([s EXCEPT !.run.batch = batch,
                                      !.run.queue = Drop(remaining, s.run.maxc),
                                      !.run.done = {}], batch, nf)
         IN IF BatchSettled(s1)
            THEN ProcessQueue([s1 EXCEPT !.run.results = @ \o BatchResults(s1)],
                              s1.run.queue, nf)
            ELSE s1

Continue_Mut(s, nf) ==
    IF s.run.active /\ ~BatchSettled(s) /\ s.run.done # {} /\ Len(s.run.queue) > 0
    THEN StartAll([s EXCEPT !.run.batch = @ \o <<Head(s.run.queue)>>,
                            !.run.queue = Tail(@)],
                  <<Head(s.run.queue)>>, nf)
    ELSE IF s.run.active /\ BatchSettled(s)
         THEN ProcessQueue([s EXCEPT !.run.results = @ \o BatchResults(s),
                                     !.run.batch = <<>>, !.run.done = {}],
                           s.run.queue, nf)
         ELSE s

\* the continuation of Promise.all once the last pipeline of the batch has
\* resolved: results.push(...batchResults), then the rest of the queue
Continue(s, nf) ==
    IF s.run.active /\ BatchSettled(s)
    THEN ProcessQueue([s EXCEPT !.run.results = @ \o BatchResults(s),
                                !.run.batch = <<>>, !.run.done = {}],
                      s.run.queue, nf)
    ELSE s

\* the ids Continue starts a pipeline for
NextStarters(s) ==
    IF s.run.active /\ BatchSettled(s)
    THEN Starters(s.run.snapFiles, s.run.queue, s.run.maxc)
    ELSE {}

MaxConcurrent(opt) == IF opt = 0 THEN DefaultMaxConcurrent ELSE opt

\* uploadFiles(input, {maxConcurrentUploads: opt}) called from a render whose
\* registry value is snapFiles
UploadFiles(s, snapFiles, input, opt, owner, nf) ==
    IF Len(input) = 0
    THEN [s EXCEPT !.lastCall = [input |-> input, ids |-> <<>>, results |-> <<>>,
                                 returned |-> TRUE]]
    ELSE LET reg == AddFiles([files |-> s.files, uploads |-> s.uploads,
                              nextId |-> s.nextId], input)
             s1 == [s EXCEPT !.uploading = TRUE,
                             !.calls = @ + 1,
                             !.files = reg.files,
                             !.uploads = reg.uploads,
                             !.nextId = reg.nextId,
                             !.lastCall = [input |-> input,
                                           ids |-> FileIds(snapFiles, input),
                                           results |-> <<>>, returned |-> FALSE],
                             !.run = [active |-> TRUE, owner |-> owner,
                                      input |-> input, maxc |-> MaxConcurrent(opt),
                                      batch |-> <<>>, queue |-> <<>>, done |-> {},
                                      results |-> <<>>, snapFiles |-> snapFiles,
                                      snapCtrl |-> s.ctrls]]
         IN ProcessQueue(s1, FileIds(snapFiles, input), nf)

\* ---- FileUpload.onDrop --------------------------------------------------
\* every use of the component passes autoUpload = false, so the drop only
\* registers the accepted files; the dropzone is disabled while isUploading
OnDrop(list) ==
    /\ host = "component"
    /\ ~isUploading
    /\ Len(list) > 0
    /\ Cardinality(NewKeys(files, list)) <= MaxIds + 1 - nextId
    /\ LET reg == AddFiles([files |-> files, uploads |-> uploads, nextId |-> nextId], list)
       IN Commit([Cur EXCEPT !.files = reg.files, !.uploads = reg.uploads,
                             !.nextId = reg.nextId])

\* ---- FileUpload.handleUpload --------------------------------------------
FirstIdOf(fs, k) == CHOOSE i \in Ids : fs[i] = k /\ \A j \in Ids : fs[j] = k => i <= j

\* the registered files whose first entry of the same (name, size) is not
\* in status success
FilesToUpload(snapFiles, snapUploads) ==
    LET keep == SelectSeq(IdSeq, LAMBDA i :
                    /\ snapFiles[i] # NoFile
                    /\ snapUploads[FirstIdOf(snapFiles, snapFiles[i])].status # "success")
    IN [j \in 1..Len(keep) |-> snapFiles[keep[j]]]

HandleUpload(s, snapFiles, snapUploads, nf) ==
    LET filesToUpload == FilesToUpload(snapFiles, snapUploads)
    IN IF Len(filesToUpload) = 0 THEN s
       ELSE UploadFiles([s EXCEPT !.isUploading = TRUE], snapFiles, filesToUpload,
                        ComponentMaxConcurrent, "component", nf)

\* the ids the first batch of handleUpload starts
HandleUploadStarters(snapFiles, snapUploads) ==
    LET input == FilesToUpload(snapFiles, snapUploads)
    IN Starters(snapFiles, FileIds(snapFiles, input), MaxConcurrent(ComponentMaxConcurrent))

\* the Upload button: disabled={isUploading || files.length === 0}
ClickUpload ==
    /\ host = "component"
    /\ ~isUploading
    /\ Registered(files) # {}
    /\ calls < MaxCalls
    /\ \E nf \in [HandleUploadStarters(files, uploads) -> Fates] :
          Commit(HandleUpload(Cur, files, uploads, nf))

\* ---- FileUpload.retryUpload ---------------------------------------------
\* the retry button is rendered for a file in status error
RetryUploadOp(s, id, nf) ==
    LET s1 == [s EXCEPT !.uploads = SetProgress(s.files,
                            SetUploadStatus(s.files, @, id, "pending", MsgNone), id, 0),
                        !.retried = @ \cup {id}]
    IN IF ~s.isUploading THEN HandleUpload(s1, s.files, s.uploads, nf) ELSE s1

RetryUpload(id) ==
    /\ host = "component"
    /\ files[id] # NoFile
    /\ uploads[id].status = "error"
    /\ isUploading \/ calls < MaxCalls
    /\ \E nf \in [(IF isUploading THEN {} ELSE HandleUploadStarters(files, uploads)) -> Fates] :
          Commit(RetryUploadOp(Cur, id, nf))

\* ---- direct call of uploadFiles (Sketchify.handleUploadAndProcess) ------
\* the caller's button is disabled while uploading
InputLists == UNION {[1..n -> Keys] : n \in 0..MaxLen}

MaxConcurrentOptions == {0, 1}     \* 0: option not given

CallUploadFiles(input, opt) ==
    /\ host = "direct"
    /\ ~uploading
    /\ calls < MaxCalls
    /\ Cardinality(NewKeys(files, input)) <= MaxIds + 1 - nextId
    /\ \E nf \in [Starters(files, FileIds(files, input), MaxConcurrent(opt)) -> Fates] :
          Commit(UploadFiles(Cur, files, input, opt, "direct", nf))

\* ---- the events of one pipeline -----------------------------------------
AuthorizationFailed_Mut(s, id) == [s EXCEPT !.net[id] = "ok"]

\* the authorization request was rejected, or its response lacks
\* presigned_url or key: the attempt throws into the catch block before an
\* XMLHttpRequest exists
AuthorizationFailed(s, id) == Settle(s, id, FALSE, MsgPresign)

AuthorizeResponse_Mut(id) ==
    /\ pc[id] = "authorize"
    /\ Commit([Cur EXCEPT !.pc[id] = "transfer"])

\* the authorization response arrives; on success the XMLHttpRequest is
\* created, the abort listeners are attached and the PUT is sent
AuthorizeResponse(id) ==
    /\ pc[id] = "authorize"
    /\ IF net[id] = "auth"
       THEN LET s1 == AuthorizationFailed(Cur, id)
            IN \E nf \in [NextStarters(s1) -> Fates] : Commit(Continue(s1, nf))
       ELSE Commit([Cur EXCEPT !.pc[id] = "transfer"])

\* xhr.upload 'progress' with event.loaded = n
TransferProgress(id, n) ==
    /\ pc[id] = "transfer"
    /\ n > loaded[id]
    /\ Commit([Cur EXCEPT !.loaded[id] = n,
                          !.uploads = SetProgress(files, @, id, PercentComplete(n, Total))])

Transferred_Mut(s, id) ==
    [s EXCEPT !.pc[id] = "confirm",
              !.uploads = SetUploadStatus(s.files, @, id, "success", MsgNone)]

\* the upload promise resolved with success: the confirmation request is
\* sent; the registry is not touched
Transferred(s, id) == [s EXCEPT !.pc[id] = "confirm"]

\* xhr 'load' (2xx, or another status) or 'error'
TransferEnd(id) ==
    /\ pc[id] = "transfer"
    /\ IF net[id] = "put"
       THEN LET s1 == Settle(Cur, id, FALSE, MsgTransfer)
            IN \E nf \in [NextStarters(s1) -> Fates] : Commit(Continue(s1, nf))
       ELSE Commit(Transferred(Cur, id))

\* the confirmation response arrives
ConfirmResponse(id) ==
    /\ pc[id] = "confirm"
    /\ LET s1 == IF net[id] = "confirm" THEN Settle(Cur, id, FALSE, MsgConfirm)
                 ELSE Settle(Cur, id, TRUE, MsgNone)
       IN \E nf \in [NextStarters(s1) -> Fates] : Commit(Continue(s1, nf))

\* ---- useDirectUpload.cancelUpload / cancelAllUploads --------------------
\* controller.abort() reaches the XMLHttpRequest only through the listener
\* attached after the authorization, and xhr.abort() fires 'abort' only
\* while the request is being sent
Rejects(s, id) == s.pc[id] = "transfer"

NoteCancel(s, id, by) ==
    IF s.pc[id] = "idle" THEN s
    ELSE [s EXCEPT !.cancelReq[id] = by]

\* the synchronous part of cancelUpload(id)
AbortOne(s, id) ==
    IF id \in s.ctrls
    THEN [s EXCEPT !.ctrls = @ \ {id}]
    ELSE s

\* the catch blocks of the pipelines an abort has rejected
RECURSIVE SettleAborted(_, _)
SettleAborted(s, ids) ==
    IF ids = {} THEN s
    ELSE LET id == CHOOSE i \in ids : \A j \in ids : i <= j
         IN SettleAborted(Settle(s, id, FALSE, MsgAborted), ids \ {id})

CancelUploadOp(s, id) ==
    LET hit == IF id \in s.ctrls /\ Rejects(s, id) THEN {id} ELSE {}
    IN SettleAborted(AbortOne(s, id), hit)

\* the controllers cancelAllUploads aborts
ControllersToAbort(s) == s.ctrls

CancelAllUploadsOp(s) ==
    LET hit == {i \in ControllersToAbort(s) : Rejects(s, i)}
        s1 == [s EXCEPT !.ctrls = {}]
    IN SettleAborted(s1, hit)

RECURSIVE NoteCancelAll(_, _)
NoteCancelAll(s, ids) ==
    IF ids = {} THEN s
    ELSE LET id == CHOOSE i \in ids : TRUE
         IN NoteCancelAll(NoteCancel(s, id, "all"), ids \ {id})

CancelUpload(id) ==
    /\ host = "direct"
    /\ pc[id] # "idle"
    /\ LET s1 == CancelUploadOp(NoteCancel(Cur, id, "one"), id)
       IN \E nf \in [NextStarters(s1) -> Fates] : Commit(Continue(s1, nf))

CancelAllUploads ==
    /\ host = "direct"
    /\ \E i \in Ids : pc[i] # "idle"
    /\ LET s1 == CancelAllUploadsOp(NoteCancelAll(Cur, Ids))
       IN \E nf \in [NextStarters(s1) -> Fates] : Commit(Continue(s1, nf))

\* ---- FileUpload.removeFile / clearFiles ----------------------------------
\* the remove button: disabled={isUploading && status === 'uploading'}
RemoveFileOp(s, id) ==
    LET cancels == s.uploads[id].status = "uploading"
        hit == IF cancels /\ id \in s.ctrls /\ Rejects(s, id) THEN {id} ELSE {}
        s1 == IF cancels THEN AbortOne(NoteCancel(s, id, "one"), id) ELSE s
    IN SettleAborted(RemoveEntry(s1, id), hit)

RemoveFile(id) ==
    /\ host = "component"
    /\ files[id] # NoFile
    /\ ~(isUploading /\ uploads[id].status = "uploading")
    /\ LET s1 == RemoveFileOp(Cur, id)
       IN \E nf \in [NextStarters(s1) -> Fates] : Commit(Continue(s1, nf))

\* the Clear button: disabled={isUploading}
ClearFilesOp(s) ==
    LET hit == {i \in ControllersToAbort(s) : Rejects(s, i)}
        s1 == [s EXCEPT !.ctrls = {}]
    IN SettleAborted(ClearEntries(NoteCancelAll(s1, Ids)), hit)

ClearFiles ==
    /\ host = "component"
    /\ ~isUploading
    /\ Registered(files) # {}
    /\ LET s1 == ClearFilesOp(Cur)
       IN \E nf \in [NextStarters(s1) -> Fates] : Commit(Continue(s1, nf))

Next ==
    \/ \E l \in InputLists : OnDrop(l)
    \/ ClickUpload
    \/ \E i \in Ids : RetryUpload(i)
    \/ \E l \in InputLists, o \in MaxConcurrentOptions : CallUploadFiles(l, o)
    \/ \E i \in Ids : AuthorizeResponse(i)
    \/ \E i \in Ids, n \in 0..Total : TransferProgress(i, n)
    \/ \E i \in Ids : TransferEnd(i)
    \/ \E i \in Ids : ConfirmResponse(i)
    \/ \E i \in Ids : CancelUpload(i)
    \/ CancelAllUploads
    \/ \E i \in Ids : RemoveFile(i)
    \/ ClearFiles

Spec == Init /\ [][Next]_vars

\* ---- the batch coordinator with a full registry -------------------------
\* uploadFiles called by a component of its own for files that are all
\* registered already (by an earlier call or by a drop): as many files as
\* the registry holds, a window smaller than the list
BatchInputs == {[i \in 1..n |-> i] : n \in 1..MaxIds}

BatchOptions == 1..MaxIds

BatchInit ==
    /\ xfer = NoXfer
    /\ hookCalls = NoHookCalls
    /\ sketch = NoSketch
    /\ host = "direct"
    /\ files = [i \in Ids |-> i]
    /\ uploads = [i \in Ids |-> NewUpload]
    /\ nextId = MaxIds + 1
    /\ ctrls = {}
    /\ pc = [i \in Ids |-> "idle"]
    /\ net = [i \in Ids |-> "ok"]
    /\ loaded = [i \in Ids |-> 0]
    /\ run = NoRun
    /\ uploading = FALSE
    /\ isUploading = FALSE
    /\ lastCall = NoCall
    /\ cancelReq = [i \in Ids |-> NoCancel]
    /\ calls = 0
    /\ retried = {}

BatchNext ==
    \/ \E l \in BatchInputs, o \in BatchOptions : CallUploadFiles(l, o)
    \/ \E i \in Ids : AuthorizeResponse(i)
    \/ \E i \in Ids : TransferEnd(i)
    \/ \E i \in Ids : ConfirmResponse(i)

BatchSpec == BatchInit /\ [][BatchNext]_vars

\* ---- FileUpload.resetFileUpload ------------------------------------------
\* window.resetFileUpload, exposed to parent components: the registry is
\* cleared and isUploading reset; nothing is cancelled
ResetFileUploadOp(s) == [ClearEntries(s) EXCEPT !.isUploading = FALSE]

ResetFileUpload ==
    /\ host = "component"
    /\ Registered(files) # {} \/ isUploading
    /\ Commit(ResetFileUploadOp(Cur))

\* the component with a parent that may reset it at any time; one call of
\* uploadFiles at a time
ResetInit == Init /\ host = "component"

ResetNext ==
    \/ \E l \in InputLists : OnDrop(l)
    \/ ~run.active /\ ClickUpload
    \/ \E i \in Ids : (isUploading \/ ~run.active) /\ RetryUpload(i)
    \/ \E i \in Ids : AuthorizeResponse(i)
    \/ \E i \in Ids, n \in 0..Total : TransferProgress(i, n)
    \/ \E i \in Ids : TransferEnd(i)
    \/ \E i \in Ids : ConfirmResponse(i)
    \/ \E i \in Ids : RemoveFile(i)
    \/ ClearFiles
    \/ ResetFileUpload

ResetSpec == ResetInit /\ [][ResetNext]_vars

\* ---- uploadFiles calls that overlap ---------------------------------------
\* uploadFiles has no guard of its own: a second call can be made while the
\* first one awaits processQueue. Each call is followed from its entry to
\* its finally block, its pipelines counted.
OverlapInit ==
    /\ Quiescent
    /\ host = "direct"
    /\ xfer = NoXfer
    /\ hookCalls = NoHookCalls
    /\ sketch = NoSketch

\* uploadFiles(files) with files.length = n, up to await processQueue:
\* if (!files.length) return []; setUploading(true)
UploadFilesEnter(c, n) ==
    /\ hookCalls[c].state # "awaiting"
    /\ IF n = 0
       THEN /\ hookCalls' = [hookCalls EXCEPT ![c] = [state |-> "returned", n |-> 0,
                                                       pending |-> 0]]
            /\ uploading' = uploading
       ELSE /\ hookCalls' = [hookCalls EXCEPT ![c] = [state |-> "awaiting", n |-> n,
                                                       pending |-> n]]
            /\ uploading' = TRUE
    /\ UNCHANGED <<files, uploads, nextId, ctrls, pc, net, loaded, run, isUploading,
                   lastCall, cancelReq, retried, calls, host, xfer, sketch>>

\* finally { setUploading(false); fileUploadContext.setUploading(false) }
FlagAfterFinally(calls2, current) == FALSE

\* a pipeline of call c settles; with the last one processQueue returns and
\* the finally block runs
PipelineSettles(c) ==
    /\ hookCalls[c].state = "awaiting"
    /\ LET left == hookCalls[c].pending - 1
           calls2 == [hookCalls EXCEPT ![c] =
                         IF left = 0 THEN [@ EXCEPT !.state = "returned", !.pending = 0]
                                     ELSE [@ EXCEPT !.pending = left]]
       IN /\ hookCalls' = calls2
          /\ uploading' = IF left = 0 THEN FlagAfterFinally(calls2, uploading)
                                      ELSE uploading
    /\ UNCHANGED <<files, uploads, nextId, ctrls, pc, net, loaded, run, isUploading,
                   lastCall, cancelReq, retried, calls, host, xfer, sketch>>

OverlapNext ==
    \/ \E c \in CallSlots, n \in 0..MaxIds : UploadFilesEnter(c, n)
    \/ \E c \in CallSlots : PipelineSettles(c)

OverlapSpec == OverlapInit /\ [][OverlapNext]_vars

\* ---- useSketchProcessing: processImage, batchProcessImages --------------
SketchEntry(id, key, st) == [id |-> id, originalKey |-> key, status |-> st]

\* uuidv4(), n times
FreshIds(first, n) == [j \in 1..n |-> first + j - 1]

\* the ids the catch blocks of the calls in flight may still draw
RECURSIVE Reserved(_, _)
Reserved(sk, cs) ==
    IF cs = {} THEN 0
    ELSE LET c == CHOOSE x \in cs : TRUE
         IN Len(sk.calls[c].keys) + Reserved(sk, cs \ {c})

\* a call over n keys draws at most 2n ids
RoomFor(sk, n) == (sk.nextUuid - 1) + Reserved(sk, SketchCalls) + 2 * n <= MaxUuids

\* fileMap.set(file.id, file) on a Map kept in insertion order
MapSet(fs, e) ==
    IF \E j \in 1..Len(fs) : fs[j].id = e.id
    THEN [j \in 1..Len(fs) |-> IF fs[j].id = e.id THEN e ELSE fs[j]]
    ELSE Append(fs, e)

RECURSIVE MapSetAll(_, _)
MapSetAll(fs, es) ==
    IF Len(es) = 0 THEN fs ELSE MapSetAll(MapSet(fs, Head(es)), Tail(es))

\* Array.from(new Map(prevFiles.map(file => [file.id, file])).values())
MapOf(fs) == MapSetAll(<<>>, fs)

\* processImage up to the await: setProcessing(true), the new entry in
\* status processing is appended
ProcessImageStart(sk, c, k, retry) ==
    [sk EXCEPT !.processing = TRUE,
               !.files = Append(@, SketchEntry(sk.nextUuid, k, "processing")),
               !.nextUuid = @ + 1,
               !.calls[c] = [kind |-> "single", keys |-> <<k>>,
                             ids |-> <<sk.nextUuid>>, retry |-> retry]]

\* data.success: the entry with the call's id becomes completed; finally
ProcessImageResolved(sk, c) ==
    LET id == sk.calls[c].ids[1]
        k == sk.calls[c].keys[1]
    IN [sk EXCEPT !.files = [j \in 1..Len(@) |->
                                IF @[j].id = id THEN SketchEntry(id, k, "completed")
                                                ELSE @[j]],
                  !.processing = FALSE,
                  !.calls[c] = NoSketchCall]

\* the catch block: errorFile gets a new id and replaces every entry of the
\* same originalKey; finally
ProcessImageRejected(sk, c) ==
    LET k == sk.calls[c].keys[1]
        errorFile == SketchEntry(sk.nextUuid, k, "failed")
    IN [sk EXCEPT !.files = [j \in 1..Len(@) |->
                                IF @[j].originalKey = k THEN errorFile ELSE @[j]],
                  !.nextUuid = @ + 1,
                  !.processing = FALSE,
                  !.calls[c] = NoSketchCall]

\* batchProcessImages up to the await: setProcessing(true), one pending
\* entry per upload result is appended
BatchStart(sk, c, keys) ==
    LET ids == FreshIds(sk.nextUuid, Len(keys))
    IN [sk EXCEPT !.processing = TRUE,
                  !.files = @ \o [j \in 1..Len(keys) |->
                                     SketchEntry(ids[j], keys[j], "pending")],
                  !.nextUuid = @ + Len(keys),
                  !.calls[c] = [kind |-> "batch", keys |-> keys, ids |-> ids,
                                retry |-> FALSE]]

\* data.results.map((result, index) => ({...pendingFiles[index], status}))
ProcessedFiles(call, results) ==
    [j \in 1..Len(results) |->
        LET st == IF results[j] THEN "completed" ELSE "failed"
        IN IF j <= Len(call.ids) THEN SketchEntry(call.ids[j], call.keys[j], st)
                                 ELSE SketchEntry(NoId, NoKey, st)]

\* data.success with the results array: the processed files are written
\* into the list by id; finally
BatchResolved(sk, c, results) ==
    [sk EXCEPT !.files = MapSetAll(MapOf(@), ProcessedFiles(sk.calls[c], results)),
               !.processing = FALSE,
               !.calls[c] = NoSketchCall]

\* the catch block: every entry of one of the call's keys is dropped and one
\* failed entry with a new id per upload result is appended; finally
BatchRejected(sk, c) ==
    LET keys == sk.calls[c].keys
        ids == FreshIds(sk.nextUuid, Len(keys))
    IN [sk EXCEPT !.files = SelectSeq(@, LAMBDA e :
                                ~\E j \in 1..Len(keys) : keys[j] = e.originalKey)
                            \o [j \in 1..Len(keys) |->
                                   SketchEntry(ids[j], keys[j], "failed")],
                  !.nextUuid = @ + Len(keys),
                  !.processing = FALSE,
                  !.calls[c] = NoSketchCall]

SketchCommit(sk) ==
    /\ sketch' = sk
    /\ UNCHANGED <<files, uploads, nextId, ctrls, pc, net, loaded, run, uploading,
                   isUploading, lastCall, cancelReq, retried, calls, host, xfer,
                   hookCalls>>

SketchInit ==
    /\ Quiescent
    /\ host = "direct"
    /\ xfer = NoXfer
    /\ hookCalls = NoHookCalls
    /\ sketch = NoSketch

\* processImage(originalKey, ...)
ProcessImage(c, k) ==
    /\ sketch.calls[c].kind = "none"
    /\ RoomFor(sketch, 1)
    /\ SketchCommit(ProcessImageStart(sketch, c, k, FALSE))

\* the retry button of a failed entry: handleRetry(file.id) calls
\* processImage(file.originalKey, ...)
HandleRetry(c, j) ==
    /\ sketch.calls[c].kind = "none"
    /\ j \in 1..Len(sketch.files)
    /\ sketch.files[j].status = "failed"
    /\ RoomFor(sketch, 1)
    /\ SketchCommit(ProcessImageStart(sketch, c, sketch.files[j].originalKey, TRUE))

\* the server answers processImage: success, or success = false or an error
ProcessImageReturn(c, ok) ==
    /\ sketch.calls[c].kind = "single"
    /\ SketchCommit(IF ok THEN ProcessImageResolved(sketch, c)
                          ELSE ProcessImageRejected(sketch, c))

\* handleUploadComplete returns early on an empty list
SketchBatchInputs == UNION {[1..n -> SketchKeys] : n \in 1..MaxBatch}

BatchProcessImages(c, keys) ==
    /\ sketch.calls[c].kind = "none"
    /\ RoomFor(sketch, Len(keys))
    /\ SketchCommit(BatchStart(sketch, c, keys))

\* the results arrays a response can carry for n keys: shorter, equal, longer
ResultArrays(n) == UNION {[1..m -> BOOLEAN] : m \in 0..(n + 1)}

BatchResolve(c, results) ==
    /\ sketch.calls[c].kind = "batch"
    /\ results \in ResultArrays(Len(sketch.calls[c].keys))
    /\ SketchCommit(BatchResolved(sketch, c, results))

\* success = false, or the request fails
BatchReject(c) ==
    /\ sketch.calls[c].kind = "batch"
    /\ SketchCommit(BatchRejected(sketch, c))

\* removeFile(fileId)
SketchRemoveFile(j) ==
    /\ j \in 1..Len(sketch.files)
    /\ SketchCommit([sketch EXCEPT !.files =
                        SelectSeq(@, LAMBDA e : e.id # sketch.files[j].id)])

\* the Clear All button: disabled={isProcessing}
SketchClearFiles ==
    /\ ~sketch.processing
    /\ Len(sketch.files) > 0
    /\ SketchCommit([sketch EXCEPT !.files = <<>>])

SketchNext ==
    \/ \E c \in SketchCalls, k \in SketchKeys : ProcessImage(c, k)
    \/ \E c \in SketchCalls, j \in 1..MaxUuids : HandleRetry(c, j)
    \/ \E c \in SketchCalls, ok \in BOOLEAN : ProcessImageReturn(c, ok)
    \/ \E c \in SketchCalls, keys \in SketchBatchInputs : BatchProcessImages(c, keys)
    \/ \E c \in SketchCalls, results \in ResultArrays(MaxBatch) : BatchResolve(c, results)
    \/ \E c \in SketchCalls : BatchReject(c)
    \/ \E j \in 1..MaxUuids : SketchRemoveFile(j)
    \/ SketchClearFiles

SketchSpec == SketchInit /\ [][SketchNext]_vars

\* ---- one PUT to a presigned URL, byte by byte ---------------------------
\* the three implementations of the PUT: the hook's uploadSingleFile,
\* uploadFileWithPresignedUrl of lib/upload.ts, uploadFileToS3 of
\* services/upload.api.ts
Implementations == {"useDirectUpload", "lib/upload", "services/upload.api"}

\* File.type: empty when the browser cannot tell
FileTypes == {"", "image/png"}

Header(n, v) == [name |-> n, value |-> v]

\* xhr.setRequestHeader('Content-Type', file.type || 'application/octet-stream')
HookPutHeaders(type) ==
    <<Header("Content-Type", IF type = "" THEN "application/octet-stream" ELSE type)>>

\* xhr.setRequestHeader('Content-Type', file.type)
LibPutHeaders(type) == <<Header("Content-Type", type)>>

ServicePutHeaders_Mut(type) ==
    <<Header("Content-Type", type), Header("x-amz-acl", "private")>>

\* fetch(presignedUrl, {method: 'PUT', headers: {'Content-Type': file.type}, body: file})
ServicePutHeaders(type) == <<Header("Content-Type", type)>>

PutHeaders(impl, type) ==
    CASE impl = "useDirectUpload" -> HookPutHeaders(type)
      [] impl = "lib/upload" -> LibPutHeaders(type)
      [] OTHER -> ServicePutHeaders(type)

\* the implementations that listen to upload progress
ReportsProgress(impl) == impl \in {"useDirectUpload", "lib/upload"}

\* HTTP statuses of the PUT response on both sides of the 2xx test
PutStatuses == {199, 200, 204, 299, 300, 403}

\* xhr.status >= 200 && xhr.status < 300; response.ok of fetch
Is2xx(status) == status >= 200 /\ status < 300

Quote == "\""

\* what xhr.getResponseHeader('ETag') can give: null, a quoted token, a bare
\* token
EtagHeaders ==
    {[present |-> FALSE, value |-> <<>>],
     [present |-> TRUE, value |-> <<Quote, "a", "b", Quote>>],
     [present |-> TRUE, value |-> <<"a", "b">>]}

\* .replace(/"/g, '')
StripQuotes(value) == SelectSeq(value, LAMBDA c : c # Quote)

\* xhr.getResponseHeader('ETag')?.replace(/"/g, '') || ''
EtagOf(header) == IF header.present THEN StripQuotes(header.value) ELSE <<>>

\* the first step of the call: uploadFile of services/upload.api.ts awaits
\* getPresignedUrl, the other two are handed the URL
FirstPhase(impl) == IF impl = "services/upload.api" THEN "presign" ELSE "unsent"

TransferInit ==
    /\ Quiescent
    /\ hookCalls = NoHookCalls
    /\ sketch = NoSketch
    /\ host = "direct"
    /\ \E im \in Implementations, ty \in FileTypes, n \in 0..MaxBytes :
          xfer = [NoXfer EXCEPT !.impl = im, !.fileType = ty, !.total = n,
                                !.phase = FirstPhase(im)]

\* xhr.open('PUT', url); xhr.setRequestHeader(...); xhr.send(file), or
\* fetch(url, {method: 'PUT', headers, body})
PutRequest(x) ==
    [x EXCEPT !.phase = "sending", !.headers = PutHeaders(x.impl, x.fileType)]

SendPut ==
    /\ xfer.phase = "unsent"
    /\ xfer' = PutRequest(xfer)
    /\ UNCHANGED <<files, uploads, nextId, ctrls, pc, net, loaded, run, uploading,
                   isUploading, lastCall, cancelReq, retried, calls, host,
                   hookCalls, sketch>>

\* xhr.upload 'progress' with event.loaded = n and event.total = the file's
\* size; lengthComputable is false for an empty body
UploadProgress(n) ==
    /\ xfer.phase = "sending"
    /\ ReportsProgress(xfer.impl)
    /\ n > xfer.sent /\ n <= xfer.total
    /\ xfer' = [xfer EXCEPT !.sent = n,
                            !.percent = PercentComplete(n, xfer.total),
                            !.reported = TRUE]
    /\ UNCHANGED <<files, uploads, nextId, ctrls, pc, net, loaded, run, uploading,
                   isUploading, lastCall, cancelReq, retried, calls, host,
                   hookCalls, sketch>>

HookOnLoad_Mut(x, status, header) ==
    IF Is2xx(status) /\ header.present
    THEN [x EXCEPT !.promise = "resolved", !.etag = EtagOf(header),
                   !.confirmSent = TRUE]
    ELSE [x EXCEPT !.promise = "rejected"]

\* the hook's 'load' listener and, when it resolves, the continuation of
\* await uploadPromise: confirmFileUpload({key, etag})
HookOnLoad(x, status, header) ==
    IF Is2xx(status)
    THEN [x EXCEPT !.promise = "resolved", !.etag = EtagOf(header),
                   !.confirmSent = TRUE]
    ELSE [x EXCEPT !.promise = "rejected"]

\* the hook's 'error' listener: reject(new Error('Network error'))
HookOnError(x) == [x EXCEPT !.promise = "rejected"]

\* the catch block of uploadFileWithPresignedUrl, entered when the awaited
\* promise rejects: onError(error); throw error
LibCatch(x) == [x EXCEPT !.onError = @ + 1, !.promise = "rejected"]

\* xhr.onload of uploadFileWithPresignedUrl, followed by the catch block
\* when it rejects
LibOnLoad(x, status) ==
    IF Is2xx(status)
    THEN [x EXCEPT !.onSuccess = @ + 1, !.promise = "resolved"]
    ELSE LibCatch([x EXCEPT !.onError = @ + 1])

\* xhr.onerror of uploadFileWithPresignedUrl, followed by the catch block
LibOnError(x) == LibCatch([x EXCEPT !.onError = @ + 1])

LegacyCatch_Mut(x) == [x EXCEPT !.threw = TRUE]

\* the catch block of the legacy uploadFile: return {success: false, error}
LegacyCatch(x) ==
    [x EXCEPT !.returned = TRUE, !.success = FALSE, !.hasError = TRUE]

\* the legacy uploadFile after uploadFileToS3 returned response.ok
LegacyOnResponse(x, status) ==
    IF Is2xx(status)
    THEN [x EXCEPT !.returned = TRUE, !.success = TRUE, !.hasFileUrl = TRUE]
    ELSE [x EXCEPT !.returned = TRUE, !.success = FALSE, !.hasError = TRUE]

\* getPresignedUrl answers: with the presigned data the PUT is sent at once,
\* a rejected request lands in the catch block
PresignResponse(ok) ==
    /\ xfer.phase = "presign"
    /\ xfer' = IF ok THEN PutRequest(xfer)
                     ELSE LegacyCatch([xfer EXCEPT !.phase = "failed"])
    /\ UNCHANGED <<files, uploads, nextId, ctrls, pc, net, loaded, run, uploading,
                   isUploading, lastCall, cancelReq, retried, calls, host,
                   hookCalls, sketch>>

OnLoad(x, status, header) ==
    CASE x.impl = "useDirectUpload" -> HookOnLoad(x, status, header)
      [] x.impl = "lib/upload" -> LibOnLoad(x, status)
      [] OTHER -> LegacyOnResponse(x, status)

\* xhr 'load', or the fetch promise resolves: the storage endpoint answered
PutLoad(status, header) ==
    /\ xfer.phase = "sending"
    /\ xfer' = OnLoad([xfer EXCEPT !.phase = "loaded",
                                   !.response = IF Is2xx(status) THEN "2xx"
                                                                 ELSE "non-2xx",
                                   !.etagHeader = header],
                      status, header)
    /\ UNCHANGED <<files, uploads, nextId, ctrls, pc, net, loaded, run, uploading,
                   isUploading, lastCall, cancelReq, retried, calls, host,
                   hookCalls, sketch>>

OnNetworkError(x) ==
    CASE x.impl = "useDirectUpload" -> HookOnError(x)
      [] x.impl = "lib/upload" -> LibOnError(x)
      [] OTHER -> LegacyCatch(x)

\* xhr 'error', or the fetch promise rejects: no response arrived
PutError ==
    /\ xfer.phase = "sending"
    /\ xfer' = OnNetworkError([xfer EXCEPT !.phase = "failed",
                                           !.response = "network error"])
    /\ UNCHANGED <<files, uploads, nextId, ctrls, pc, net, loaded, run, uploading,
                   isUploading, lastCall, cancelReq, retried, calls, host,
                   hookCalls, sketch>>

TransferNext ==
    \/ SendPut
    \/ \E n \in 1..MaxBytes : UploadProgress(n)
    \/ \E st \in PutStatuses, h \in EtagHeaders : PutLoad(st, h)
    \/ PutError
    \/ \E ok \in BOOLEAN : PresignResponse(ok)

\* the PUT request went out
PutSent == xfer.phase \in {"sending", "loaded"} \/ xfer.response = "network error"

TransferSpec == TransferInit /\ [][TransferNext]_vars

\* ---- derived sets -------------------------------------------------------
InFlight == {i \in Ids : pc[i] # "idle"}

Uploading == {i \in Ids : uploads[i].status = "uploading"}

\* C1: while uploadFiles runs with maxConcurrentUploads = N, at most N files
\* hold status uploading and at most N pipelines are in flight
C1_ConcurrencyCeiling ==
    /\ run.active => /\ Cardinality(Uploading) <= run.maxc
                     /\ Cardinality(InFlight) <= run.maxc
    /\ ~run.active => InFlight = {}

\* a run whose window is full while files are still queued
C1_Witness ==
    /\ run.active
    /\ Len(run.queue) > 0
    /\ Cardinality(Uploading) = run.maxc
    /\ Cardinality(InFlight) = run.maxc

\* every result the invocation in progress, or the last one, has produced
AllResults == run.done \cup SeqToSet(run.results) \cup SeqToSet(lastCall.results)

\* C2: when uploadFiles has returned, every file of the work queue has its
\* own result, in the order of the queue; and whatever happens to its
\* siblings, a pipeline whose three requests succeed ends, unless it is
\* aborted, with status success and a result with success = true, and a
\* pipeline one of whose requests fails ends with a result with
\* success = false
C2_FailureIsolation ==
    /\ [](lastCall.returned =>
             /\ Len(lastCall.results) = Len(lastCall.ids)
             /\ \A k \in 1..Len(lastCall.results) :
                   lastCall.results[k].id = lastCall.ids[k])
    /\ [][\A i \in Ids : (pc[i] # "idle" /\ pc'[i] = "idle") =>
             \E r \in AllResults' :
                /\ r.id = i
                /\ (net[i] = "ok" /\ r.error # MsgAborted) =>
                      /\ r.success
                      /\ files'[i] # NoFile => uploads'[i].status = "success"
                /\ net[i] # "ok" => ~r.success]_vars

\* a returned batch with a failed file and a successful sibling
C2_Witness ==
    /\ lastCall.returned
    /\ \E k, l \in 1..Len(lastCall.results) :
          /\ ~lastCall.results[k].success
          /\ lastCall.results[l].success
          /\ uploads[lastCall.results[l].id].status = "success"
          /\ uploads[lastCall.results[k].id].status = "error"

\* C3: uploadFiles returns one result per input file, in input order
C3_OneResultPerInput ==
    (lastCall.returned /\ host = "direct") =>
        /\ Len(lastCall.results) = Len(lastCall.input)
        /\ \A k \in 1..Len(lastCall.results) :
              files[lastCall.results[k].id] = lastCall.input[k]

\* C4: a file enters status success only in the step that handles a
\* successful confirmation response of that file, and a result with
\* success = true is produced only there
C4_SuccessOnlyAfterConfirm ==
    [][\A i \in Ids :
          (uploads'[i].status = "success" /\ uploads[i].status # "success") =>
              (pc[i] = "confirm" /\ net[i] = "ok" /\ ConfirmResponse(i))]_vars

\* a transfer that completed and whose confirmation was rejected
C4_Witness ==
    \E i \in Ids : /\ uploads[i].status = "error"
                   /\ uploads[i].error = MsgConfirm
                   /\ uploads[i].progress = 100

\* C5: a pipeline for which cancelUpload was raised while it was in flight
\* does not end in success
C5_CancelFailsPipeline ==
    [][\A i \in Ids : (cancelReq[i] = "one" /\ pc[i] # "idle" /\ pc'[i] = "idle") =>
          uploads'[i].status # "success"]_vars

\* C6: cancelUpload(i) raised during i's byte transfer, as the first cancel
\* of that attempt, moves i, and i alone, to error: the pipeline, the status
\* and the progress of every other in-flight file stay as they are
C6_CancelIsolation ==
    [][\A i \in Ids : (/\ CancelUpload(i)
                       /\ pc[i] = "transfer" /\ cancelReq[i] = NoCancel
                       /\ files[i] # NoFile) =>
          /\ uploads'[i].status = "error"
          /\ \A j \in Ids \ {i} : pc[j] # "idle" =>
                (pc'[j] = pc[j] /\ uploads'[j] = uploads[j])]_vars

\* C7: cancelAllUploads makes every transfer in flight end in error (stated
\* for the transfers no cancelUpload was raised for before) and leaves
\* every file in success in success
C7_CancelAllAbortsInFlight ==
    [][CancelAllUploads =>
          /\ \A i \in Ids : (pc[i] = "transfer" /\ cancelReq[i] = "none") =>
                /\ pc'[i] = "idle"
                /\ files[i] # NoFile => uploads'[i].status = "error"
          /\ \A i \in Ids : uploads[i].status = "success" =>
                uploads'[i].status = "success"]_vars

\* C8: while a file stays in status uploading its progress never decreases
C8_ProgressMonotone ==
    [][\A i \in Ids :
          (uploads[i].status = "uploading" /\ uploads'[i].status = "uploading") =>
              uploads'[i].progress >= uploads[i].progress]_vars

\* C9: retryUpload(i) puts i in status uploading with progress 0, and
\* neither starts a pipeline for another file nor changes its status or
\* progress
C9_RetryOnlyThatFile ==
    [][\A i \in Ids : RetryUpload(i) =>
          /\ uploads'[i].status = "uploading"
          /\ uploads'[i].progress = 0
          /\ pc'[i] # "idle"
          /\ \A j \in Ids \ {i} : pc'[j] = pc[j] /\ uploads'[j] = uploads[j]]_vars

\* C10: a retried file gets its new attempt, also when the retry is raised
\* while another upload is in progress: once no upload is in progress no
\* retried file is still waiting for the attempt that would bring it to
\* success
C10_RetryReachesSuccess ==
    \A i \in retried : run.active \/ isUploading

\* C11: no two live registry entries have the same (name, size), and no
\* step creates an entry for a (name, size) that is already registered
C11_NoDuplicateEntries ==
    /\ [](\A i, j \in Ids : (files[i] # NoFile /\ files[i] = files[j]) => i = j)
    /\ [][\A i \in Ids : (files[i] = NoFile /\ files'[i] # NoFile) =>
             ~HasKey(files, files'[i])]_vars

\* uploadFiles was given the same file twice and the registry holds it once
C11_Witness ==
    /\ Len(lastCall.input) = 2
    /\ lastCall.input[1] = lastCall.input[2]
    /\ Cardinality({i \in Ids : files[i] = lastCall.input[1]}) = 1

\* C12: a file in status success has progress 100
C12_SuccessHasFullProgress ==
    \A i \in Ids : uploads[i].status = "success" => uploads[i].progress = 100

\* C13: every PUT that was sent carries exactly one request header, and
\* its name is Content-Type
C13_OnlyContentType ==
    PutSent =>
        /\ Len(xfer.headers) = 1
        /\ xfer.headers[1].name = "Content-Type"

\* a PUT of a file without a declared type was sent by uploadFileToS3
C13_Witness ==
    /\ xfer.phase = "sending"
    /\ xfer.impl = "services/upload.api"
    /\ xfer.fileType = ""
    /\ Len(xfer.headers) > 0

\* C20: the progress reported for bytesSent of totalBytes is
\* floor(bytesSent * 100 / totalBytes), and 100 is reported only when
\* bytesSent = totalBytes
C20_ProgressIsFloor ==
    xfer.reported =>
        /\ xfer.percent = (xfer.sent * 100) \div xfer.total
        /\ xfer.percent = 100 => xfer.sent = xfer.total

\* C14: whenever a pipeline completes while ids are still queued, the next
\* queued id is admitted in the same step
C14_SlidingWindow ==
    [][\A i \in Ids :
          (run.active /\ Len(run.queue) > 0 /\ pc[i] # "idle" /\ pc'[i] = "idle") =>
              Len(run'.queue) < Len(run.queue)]_vars

\* C14 as amended: the queue is processed in fixed batches: an id is
\* admitted only in a step after which no pipeline admitted earlier is still
\* in flight, and a run in progress never waits with nothing in flight
C14_FixedBatches ==
    /\ [][\A i \in Ids : (run.active /\ pc[i] = "idle" /\ pc'[i] # "idle") =>
             \A j \in Ids : pc[j] # "idle" => pc'[j] = "idle"]_vars
    /\ [](run.active => InFlight # {})

\* a pipeline of the batch has completed, a sibling is in flight and ids
\* are still queued
C14_Witness ==
    /\ run.active
    /\ Len(run.queue) > 0
    /\ run.done # {}
    /\ InFlight # {}

\* C16: a file in status success is not put in the work queue of a later
\* uploadFiles call and does not leave success
C16_SuccessNotUploadedAgain ==
    [][\A i \in Ids : uploads[i].status = "success" =>
          /\ uploads'[i].status = "success" \/ files'[i] = NoFile
          /\ pc'[i] = "idle"
          /\ calls' # calls => i \notin SeqToSet(lastCall'.ids)]_vars

\* C15: a file is registered in status pending, and its status changes only
\* along pending -> uploading, uploading -> success, uploading -> error and
\* error -> uploading
C15_StatusStateMachine ==
    [][\A i \in Ids :
          /\ (files[i] = NoFile /\ files'[i] # NoFile) => uploads'[i].status = "pending"
          /\ (files[i] # NoFile /\ files'[i] # NoFile
              /\ uploads'[i].status # uploads[i].status) =>
                 <<uploads[i].status, uploads'[i].status>> \in
                     {<<"pending", "uploading">>, <<"uploading", "success">>,
                      <<"uploading", "error">>, <<"error", "uploading">>}]_vars

\* C17: in every attempt the PUT is issued only on a successful
\* authorization response, the confirmation request only on a PUT that
\* completed with success, an attempt starts with the authorization, and
\* after a failed step the attempt issues nothing more
C17_StepsInSequence ==
    [][\A i \in Ids :
          /\ (pc'[i] = "authorize" /\ pc[i] # "authorize") => pc[i] = "idle"
          /\ (pc'[i] = "transfer" /\ pc[i] # "transfer") =>
                (pc[i] = "authorize" /\ net[i] # "auth")
          /\ (pc'[i] = "confirm" /\ pc[i] # "confirm") =>
                (pc[i] = "transfer" /\ net[i] # "put")
          /\ (pc[i] = "authorize" /\ net[i] = "auth") => pc'[i] \in {"authorize", "idle"}
          /\ (pc[i] = "transfer" /\ net[i] = "put") => pc'[i] \in {"transfer", "idle"}]_vars

\* one file has reached its confirmation while the attempt of another
\* ended at the authorization
C17_Witness ==
    \E i, j \in Ids :
        /\ pc[i] = "confirm"
        /\ uploads[j].status = "error" /\ uploads[j].error = MsgPresign /\ pc[j] = "idle"

\* C18: in the step in which uploadFiles returns, every result agrees with
\* the registry entry of its file: success = true exactly when the status
\* is success, success = false exactly when the status is error with the
\* message of the result, and no file of the batch is in status uploading
C18_ResultsAgreeWithRegistry ==
    [][(run.active /\ ~run'.active) =>
          \A k \in 1..Len(lastCall'.results) :
             LET r == lastCall'.results[k]
             IN files'[r.id] # NoFile =>
                   /\ r.success <=> uploads'[r.id].status = "success"
                   /\ ~r.success <=> (/\ uploads'[r.id].status = "error"
                                      /\ uploads'[r.id].error = r.error)
                   /\ uploads'[r.id].status # "uploading"]_vars

\* C19: a registered file carries an error message only while its status
\* is error (the part of the claim about the fields the registry model
\* holds: a file that is pending or uploading again after an error carries
\* no error message)
C19_ErrorMessageOnlyOnError ==
    \A i \in Ids : (files[i] # NoFile /\ uploads[i].error # MsgNone) =>
        uploads[i].status = "error"

C29_ExactlyOneCallback ==
    (xfer.impl = "lib/upload" /\ xfer.phase \in {"loaded", "failed"}) =>
        /\ xfer.onSuccess + xfer.onError = 1
        /\ xfer.response = "2xx" => (xfer.onSuccess = 1 /\ xfer.promise = "resolved")
        /\ xfer.response # "2xx" => (xfer.onError = 1 /\ xfer.promise = "rejected")

\* C30: the legacy uploadFile never throws; when the call is over it has
\* returned a value, with success and a fileUrl exactly when the presign
\* request succeeded and the PUT response was ok, and with success = false
\* and an error message otherwise.
C30_LegacyNeverThrows ==
    xfer.impl = "services/upload.api" =>
        /\ ~xfer.threw
        /\ xfer.phase \in {"loaded", "failed"} =>
              /\ xfer.returned
              /\ xfer.success <=> xfer.response = "2xx"
              /\ xfer.success => (xfer.hasFileUrl /\ ~xfer.hasError)
              /\ ~xfer.success => (xfer.hasError /\ ~xfer.hasFileUrl)
        /\ xfer.phase \in {"presign", "sending"} => ~xfer.returned

C30_Witness ==
    /\ xfer.impl = "services/upload.api"
    /\ xfer.phase = "failed"
    /\ xfer.response = "none"
    /\ xfer.returned
    /\ ~xfer.success
    /\ xfer.hasError

\* C22: an attempt whose authorization fails ends at the authorization
\* response: the file's status becomes error, neither the PUT nor the
\* confirmation is issued, and the authorization request is not issued again
\* within the attempt.
C22_AuthorizationFailureEndsAttempt ==
    [][\A i \in Ids :
          /\ (pc[i] = "authorize" /\ pc'[i] = "authorize") => net'[i] = net[i]
          /\ (pc[i] = "authorize" /\ net[i] = "auth" /\ pc'[i] # "authorize") =>
                /\ pc'[i] = "idle"
                /\ files[i] # NoFile =>
                      (uploads'[i].status = "error" /\ uploads'[i].error = MsgPresign)
                /\ Result(i, FALSE, MsgPresign) \in
                      run'.done \cup SeqToSet(run'.results)
                                \cup SeqToSet(lastCall'.results)]_vars

\* uploadFiles has returned with the result of an attempt that ended at the
\* authorization
C22_Witness ==
    /\ lastCall.returned
    /\ \E k \in 1..Len(lastCall.results) :
          LET r == lastCall.results[k]
          IN /\ r = Result(r.id, FALSE, MsgPresign)
             /\ uploads[r.id].status = "error"
             /\ uploads[r.id].error = MsgPresign

\* C24: every file whose pipeline is in flight, and that nobody has asked
\* to cancel, has its AbortController in abortControllers: the cleanup at
\* the end of one pipeline never drops the controller of a pipeline still in
\* flight.
C24_InFlightHasController ==
    \A i \in InFlight : cancelReq[i] = NoCancel => i \in ctrls

\* C23: every pipeline in flight belongs to a file that is present in the
\* registry; no removal or clearing deletes an entry and leaves its transfer
\* running.
C23_InFlightIsRegistered ==
    \A i \in InFlight : files[i] # NoFile

\* C25: the uploading flag is true in every state in which a pipeline
\* started by uploadFiles is in flight, also when two calls overlap, and
\* false once every call has returned; uploadFiles([]) returns without
\* changing the flag or the registry.
C25_FlagCoversEveryCall ==
    [][/\ (\E c \in CallSlots : hookCalls'[c].state = "awaiting") <=> uploading'
       /\ \A c \in CallSlots :
             (hookCalls'[c] # hookCalls[c] /\ hookCalls'[c].n = 0) =>
                (uploading' = uploading /\ files' = files /\ uploads' = uploads)]_vars

DistinctIds(fs) == \A i, j \in 1..Len(fs) : i # j => fs[i].id # fs[j].id

\* the entries of originalKey k that are not completed
Unfinished(fs, k) ==
    {j \in 1..Len(fs) : fs[j].originalKey = k /\ fs[j].status # "completed"}

\* C26: after every step of the sketch-processing hook the entries of the
\* files list have pairwise distinct ids, and when a retry returns at most
\* one entry of the retried originalKey is not completed.
C26_DistinctIdsAfterRetry ==
    [][/\ DistinctIds(sketch'.files)
       /\ \A c \in SketchCalls :
             (sketch.calls[c].retry /\ sketch'.calls[c].kind = "none") =>
                Cardinality(Unfinished(sketch'.files, sketch.calls[c].keys[1])) <= 1]_vars

\* C27: in the step in which processImage or batchProcessImages returns,
\* every entry the call added is completed or failed, whatever the server
\* answered.
C27_NoPendingAfterReturn ==
    [][\A c \in SketchCalls :
          (sketch.calls[c].kind # "none" /\ sketch'.calls[c].kind = "none") =>
             \A j \in 1..Len(sketch'.files) :
                sketch'.files[j].id \in SeqToSet(sketch.calls[c].ids) =>
                   sketch'.files[j].status \in {"completed", "failed"}]_vars

\* C28: the processing flag is true exactly in the states in which a
\* processImage or batchProcessImages call awaits its server response.
C28_ProcessingCoversCalls ==
    sketch.processing <=> \E c \in SketchCalls : sketch.calls[c].kind # "none"

====
